---- MODULE Spec2Model ----
(***************************************************************************)
(* Stripe webhook reconciliation: the POST route handler that verifies a   *)
(* signed event and marks the corresponding Payment row as paid.           *)
(*                                                                         *)
(* The handler is asynchronous; it is split at its await points:           *)
(*   Receive   - entry, await req.text()                                   *)
(*   Dispatch* - the synchronous run from the signature check to either a  *)
(*               response or the call of updatePaymentToPaid               *)
(*   Find*     - updatePaymentToPaid resolves the Payment row              *)
(*   Write*    - updatePaymentToPaid applies the guarded update, and the   *)
(*               handler answers                                           *)
(* Several deliveries run concurrently against one store.                  *)
(***************************************************************************)
EXTENDS Integers, Sequences, FiniteSets, TLC

(* ------------------------------ bounds --------------------------------- *)

\* deliveries accepted in one behaviour
MaxDeliveries == 2

\* last value of the wall clock (the clock starts at 1)
MaxClock == 2

(* --------------------------- program constants ------------------------- *)

\* charge.amount / 100
MinorUnitFactor == 100

\* JavaScript null / undefined of a string-typed field
Null == "null"

ChargeSucceeded == "charge.succeeded"

(* ------------------------------ inputs --------------------------------- *)

\* worker instances handling deliveries concurrently
Handlers == {"h1", "h2"}

\* Payment rows that exist in the store
PaymentIds == {"p1", "p2"}

\* a well-formed id that names no Payment row
UnknownPaymentId == "p9"

\* value of the stripe-signature header: absent, empty, not matching the
\* body, matching the body
Signatures == {Null, "", "bad", "good"}

BaseCharge ==
    [ id |-> "ch_1", amount |-> 12345, email |-> "a@x.io",
      orderId |-> "o1", paymentId |-> "p1" ]

\* charges differing from BaseCharge in the metadata, the payer email or
\* the amount
Charges ==
    { [BaseCharge EXCEPT !.orderId = o, !.paymentId = p] :
        o \in {Null, "", "o1"}, p \in {Null, UnknownPaymentId} \cup PaymentIds }
      \cup
    { [BaseCharge EXCEPT !.email = Null],
      [BaseCharge EXCEPT !.id = "ch_2", !.amount = 150] }

\* a delivery: the signature header and the event carried by the raw body
Requests ==
    [ sig : {"good"}, type : {ChargeSucceeded}, charge : Charges ]
      \cup
    [ sig : {"good"}, type : {"payment_intent.created"},
      charge : {BaseCharge, [BaseCharge EXCEPT !.orderId = Null]} ]
      \cup
    [ sig : Signatures \ {"good"}, type : {ChargeSucceeded},
      charge : {BaseCharge} ]

(* ------------------------- decimal rendering --------------------------- *)

Digit(d) ==
    CASE d = 0 -> "0" [] d = 1 -> "1" [] d = 2 -> "2" [] d = 3 -> "3"
      [] d = 4 -> "4" [] d = 5 -> "5" [] d = 6 -> "6" [] d = 7 -> "7"
      [] d = 8 -> "8" [] d = 9 -> "9"

RECURSIVE IntToString(_)
IntToString(n) ==
    IF n < 10 THEN Digit(n) ELSE IntToString(n \div 10) \o Digit(n % 10)

\* the exact major-unit rendering of a minor-unit amount: 12345 -> "123.45"
MajorUnits(a) ==
    IntToString(a \div MinorUnitFactor) \o "."
      \o Digit((a % MinorUnitFactor) \div 10) \o Digit(a % 10)

\* (charge.amount / 100).toFixed(): Number.prototype.toFixed with no
\* argument keeps zero fraction digits and rounds half up, amount >= 0
AmountToFixed(amount) ==
    IntToString((amount + (MinorUnitFactor \div 2)) \div MinorUnitFactor)

(* --------------------------- route handler ----------------------------- *)

\* variant: only the empty header is rejected
NoSignature_EmptyOnly(signature) == signature = ""

\* if (!signature)
NoSignature(signature) == signature \in {Null, ""}

\* stripe.webhooks.constructEvent(body, signature, secret) returns the
\* event only when the signature matches the raw body, and throws otherwise
SignatureVerifies(signature) == signature = "good"

\* variant: every verified event is treated as a successful charge
IsChargeSucceeded_Any(type) == TRUE

\* event.type === 'charge.succeeded'
IsChargeSucceeded(type) == type = ChargeSucceeded

\* variant: the existence check reads the field the update uses
HasOrderId_PaymentId(charge) == charge.paymentId \notin {Null, ""}

\* !charge.metadata?.orderId is false
HasOrderId(charge) == charge.orderId \notin {Null, ""}

\* first argument of updatePaymentToPaid
TargetPaymentId(charge) == charge.paymentId

\* variant: the external id is taken from the metadata
BuildPaymentResult_WrongId(charge, t) ==
    [ id            |-> charge.paymentId,
      status        |-> "COMPLETED",
      email_address |-> charge.email,
      pricePaid     |-> AmountToFixed(charge.amount),
      amount        |-> AmountToFixed(charge.amount),
      created_at    |-> t ]

\* second argument of updatePaymentToPaid
BuildPaymentResult(charge, t) ==
    [ id            |-> charge.id,
      status        |-> "COMPLETED",
      email_address |-> charge.email,
      pricePaid     |-> AmountToFixed(charge.amount),
      amount        |-> AmountToFixed(charge.amount),
      created_at    |-> t ]

NoResponse == [ status |-> 0, error |-> Null, message |-> Null ]

NoSignatureResponse ==
    [ status |-> 400, error |-> "No signature header", message |-> Null ]

NoOrderIdResponse ==
    [ status |-> 400, error |-> "No orderId found in payment metadata",
      message |-> Null ]

\* variant: the success body is sent with another status
SuccessResponse_Accepted ==
    [ status |-> 202, error |-> Null,
      message |-> "updateOrderToPaid was successful" ]

SuccessResponse ==
    [ status |-> 200, error |-> Null,
      message |-> "updateOrderToPaid was successful" ]

NotChargeSucceededResponse ==
    [ status |-> 200, error |-> Null,
      message |-> "event is not charge.succeeded" ]

\* variant: the catch block omits the status option
CatchResponse_NoStatus(msg) ==
    [ status |-> 200, error |-> "Failed to create conversation",
      message |-> msg ]

\* variant: the catch block answers as for a malformed request
CatchResponse_BadRequest(msg) ==
    [ status |-> 400, error |-> "Failed to create conversation",
      message |-> msg ]

\* the catch block
CatchResponse(msg) ==
    [ status |-> 500, error |-> "Failed to create conversation",
      message |-> msg ]

(* ------------------------------- store --------------------------------- *)

\* paymentResult of a row no webhook has written yet
EmptyResult ==
    [ id |-> "", status |-> "", email_address |-> "", pricePaid |-> "",
      amount |-> "", created_at |-> 0 ]

\* variant: isPaid defaults to true
DefaultPayment_Paid ==
    [ isPaid |-> TRUE, paidAt |-> << >>, paymentResult |-> EmptyResult ]

\* a Payment row as created: isPaid defaults to false, paidAt is nullable
\* and unset (<< >> is NULL, << t >> is the timestamp t)
DefaultPayment ==
    [ isPaid |-> FALSE, paidAt |-> << >>, paymentResult |-> EmptyResult ]

\* Domain Store lookup: << >> when no row has the id, << row >> otherwise
findPaymentById(store, id) ==
    IF id \in DOMAIN store THEN << store[id] >> ELSE << >>

\* the resolved Payment is already PAID
AlreadySettled(row) == row.isPaid

\* variant: the update is unconditional (read, then write)
WriteApplies_Always(row) == TRUE

\* the guard of the store-level update: WHERE id = ... AND isPaid = false
WriteApplies(row) == ~row.isPaid

\* Domain Store update: isPaid = true, paidAt = now, paymentResult = result,
\* applied only where the guard holds
markPaymentPaid(store, id, result, t) ==
    IF WriteApplies(store[id])
    THEN [store EXCEPT ![id] = [ isPaid |-> TRUE, paidAt |-> << t >>,
                                 paymentResult |-> result ]]
    ELSE store

(* ------------------------------- state --------------------------------- *)

VARIABLES
    payments,    \* the Payment table: id -> row
    paidWrites,  \* id -> number of times the paid update was applied
    now,         \* wall clock
    delivered,   \* deliveries accepted so far
    pc,          \* handler -> position
    req,         \* handler -> the delivery it handles
    args,        \* handler -> arguments of its updatePaymentToPaid call
    seen,        \* handler -> row read by updatePaymentToPaid (<< >> if none)
    calls,       \* handler -> collaborators the handler has invoked
    applied,     \* handler -> TRUE once its update was applied to a row
    startPaid,   \* handler -> rows that were paid when the handler ran
    resp,        \* handler -> its response
    thrown       \* handler -> collaborator whose exception reached the catch block

vars == << payments, paidWrites, now, delivered, pc, req, args, seen, calls,
           applied, startPaid, resp, thrown >>

NoArgs == [ id |-> Null, result |-> EmptyResult ]

IdleRequest == [ sig |-> Null, type |-> "", charge |-> BaseCharge ]

Init ==
    /\ payments = [p \in PaymentIds |-> DefaultPayment]
    /\ paidWrites = [p \in PaymentIds |-> 0]
    /\ now = 1
    /\ delivered = 0
    /\ pc = [h \in Handlers |-> "idle"]
    /\ req = [h \in Handlers |-> IdleRequest]
    /\ args = [h \in Handlers |-> NoArgs]
    /\ seen = [h \in Handlers |-> << >>]
    /\ calls = [h \in Handlers |-> {}]
    /\ applied = [h \in Handlers |-> FALSE]
    /\ startPaid = [h \in Handlers |-> {}]
    /\ resp = [h \in Handlers |-> NoResponse]
    /\ thrown = [h \in Handlers |-> Null]

\* the handler returns r
Return(h, r) ==
    /\ pc' = [pc EXCEPT ![h] = "done"]
    /\ resp' = [resp EXCEPT ![h] = r]

\* an exception thrown by collaborator c reaches the catch block, which
\* logs it and answers
Catch(h, c, msg) ==
    /\ thrown' = [thrown EXCEPT ![h] = c]
    /\ Return(h, CatchResponse(msg))

\* time passes
Tick ==
    /\ now < MaxClock
    /\ now' = now + 1
    /\ UNCHANGED << payments, paidWrites, delivered, pc, req, args, seen,
                    calls, applied, startPaid, resp,
                    thrown >>

\* POST is entered with delivery r: const body = await req.text()
Receive(h, r) ==
    /\ pc[h] \in {"idle", "done"}
    /\ delivered < MaxDeliveries
    /\ delivered' = delivered + 1
    /\ pc' = [pc EXCEPT ![h] = "recv"]
    /\ req' = [req EXCEPT ![h] = r]
    /\ args' = [args EXCEPT ![h] = NoArgs]
    /\ seen' = [seen EXCEPT ![h] = << >>]
    /\ calls' = [calls EXCEPT ![h] = {}]
    /\ applied' = [applied EXCEPT ![h] = FALSE]
    /\ startPaid' = [startPaid EXCEPT ![h] = {}]
    /\ resp' = [resp EXCEPT ![h] = NoResponse]
    /\ thrown' = [thrown EXCEPT ![h] = Null]
    /\ UNCHANGED << payments, paidWrites, now >>

\* no stripe-signature header: 400
DispatchNoSignature(h) ==
    /\ pc[h] = "recv"
    /\ NoSignature(req[h].sig)
    /\ Return(h, NoSignatureResponse)
    /\ startPaid' = [startPaid EXCEPT ![h] = {p \in PaymentIds : payments[p].isPaid}]
    /\ UNCHANGED << payments, paidWrites, now, delivered, req, args, seen,
                    calls, applied,
                    thrown >>

\* constructEvent throws; the catch block answers
DispatchBadSignature(h) ==
    /\ pc[h] = "recv"
    /\ ~NoSignature(req[h].sig)
    /\ ~SignatureVerifies(req[h].sig)
    /\ calls' = [calls EXCEPT ![h] = @ \cup {"constructEvent"}]
    /\ Catch(h, "constructEvent", "signature verification failed")
    /\ startPaid' = [startPaid EXCEPT ![h] = {p \in PaymentIds : payments[p].isPaid}]
    /\ UNCHANGED << payments, paidWrites, now, delivered, req, args, seen,
                    applied >>

\* a verified event of another type is acknowledged
DispatchOtherType(h) ==
    /\ pc[h] = "recv"
    /\ ~NoSignature(req[h].sig)
    /\ SignatureVerifies(req[h].sig)
    /\ ~IsChargeSucceeded(req[h].type)
    /\ calls' = [calls EXCEPT ![h] = @ \cup {"constructEvent"}]
    /\ Return(h, NotChargeSucceededResponse)
    /\ startPaid' = [startPaid EXCEPT ![h] = {p \in PaymentIds : payments[p].isPaid}]
    /\ UNCHANGED << payments, paidWrites, now, delivered, req, args, seen,
                    applied,
                    thrown >>

\* charge.succeeded without orderId in the metadata: 400
DispatchNoOrderId(h) ==
    /\ pc[h] = "recv"
    /\ ~NoSignature(req[h].sig)
    /\ SignatureVerifies(req[h].sig)
    /\ IsChargeSucceeded(req[h].type)
    /\ ~HasOrderId(req[h].charge)
    /\ calls' = [calls EXCEPT ![h] = @ \cup {"constructEvent"}]
    /\ Return(h, NoOrderIdResponse)
    /\ startPaid' = [startPaid EXCEPT ![h] = {p \in PaymentIds : payments[p].isPaid}]
    /\ UNCHANGED << payments, paidWrites, now, delivered, req, args, seen,
                    applied,
                    thrown >>

\* charge.succeeded with orderId: updatePaymentToPaid is called
DispatchUpdate(h) ==
    /\ pc[h] = "recv"
    /\ ~NoSignature(req[h].sig)
    /\ SignatureVerifies(req[h].sig)
    /\ IsChargeSucceeded(req[h].type)
    /\ HasOrderId(req[h].charge)
    /\ calls' = [calls EXCEPT ![h] = @ \cup {"constructEvent", "updatePaymentToPaid"}]
    /\ args' = [args EXCEPT ![h] =
                  [ id |-> TargetPaymentId(req[h].charge),
                    result |-> BuildPaymentResult(req[h].charge, now) ]]
    /\ pc' = [pc EXCEPT ![h] = "find"]
    /\ startPaid' = [startPaid EXCEPT ![h] = {p \in PaymentIds : payments[p].isPaid}]
    /\ UNCHANGED << payments, paidWrites, now, delivered, req, seen, applied,
                    resp,
                    thrown >>

\* the store fails while updatePaymentToPaid runs; the catch block answers
PersistenceFailure(h) ==
    /\ pc[h] \in {"find", "write"}
    /\ Catch(h, "updatePaymentToPaid", "persistence failure")
    /\ UNCHANGED << payments, paidWrites, now, delivered, req, args, seen,
                    calls, applied, startPaid >>

\* updatePaymentToPaid: no row has the id, UnknownPayment is thrown
FindUnknown(h) ==
    /\ pc[h] = "find"
    /\ findPaymentById(payments, args[h].id) = << >>
    /\ Catch(h, "updatePaymentToPaid", "Payment not found")
    /\ UNCHANGED << payments, paidWrites, now, delivered, req, args, seen,
                    calls, applied, startPaid >>

\* updatePaymentToPaid: the row is already PAID, success without mutation
FindPaid(h) ==
    /\ pc[h] = "find"
    /\ findPaymentById(payments, args[h].id) # << >>
    /\ AlreadySettled(findPaymentById(payments, args[h].id)[1])
    /\ seen' = [seen EXCEPT ![h] = findPaymentById(payments, args[h].id)]
    /\ Return(h, SuccessResponse)
    /\ UNCHANGED << payments, paidWrites, now, delivered, req, args, calls,
                    applied, startPaid,
                    thrown >>

\* updatePaymentToPaid: the row is PENDING, go on to the update
FindPending(h) ==
    /\ pc[h] = "find"
    /\ findPaymentById(payments, args[h].id) # << >>
    /\ ~AlreadySettled(findPaymentById(payments, args[h].id)[1])
    /\ seen' = [seen EXCEPT ![h] = findPaymentById(payments, args[h].id)]
    /\ pc' = [pc EXCEPT ![h] = "write"]
    /\ UNCHANGED << payments, paidWrites, now, delivered, req, args, calls,
                    applied, startPaid, resp,
                    thrown >>

\* updatePaymentToPaid: the guarded update, then the handler answers 200
Write(h) ==
    /\ pc[h] = "write"
    /\ payments' = markPaymentPaid(payments, args[h].id, args[h].result, now)
    /\ applied' = [applied EXCEPT ![h] = WriteApplies(payments[args[h].id])]
    /\ paidWrites' = [paidWrites EXCEPT ![args[h].id] =
                        IF WriteApplies(payments[args[h].id]) THEN @ + 1 ELSE @]
    /\ Return(h, SuccessResponse)
    /\ UNCHANGED << now, delivered, req, args, seen, calls, startPaid,
                    thrown >>

Next ==
    \/ Tick
    \/ \E h \in Handlers, r \in Requests : Receive(h, r)
    \/ \E h \in Handlers : DispatchNoSignature(h)
    \/ \E h \in Handlers : DispatchBadSignature(h)
    \/ \E h \in Handlers : DispatchOtherType(h)
    \/ \E h \in Handlers : DispatchNoOrderId(h)
    \/ \E h \in Handlers : DispatchUpdate(h)
    \/ \E h \in Handlers : PersistenceFailure(h)
    \/ \E h \in Handlers : FindUnknown(h)
    \/ \E h \in Handlers : FindPaid(h)
    \/ \E h \in Handlers : FindPending(h)
    \/ \E h \in Handlers : Write(h)

Spec == Init /\ [][Next]_vars

TypeOK ==
    /\ now \in 1..MaxClock
    /\ delivered \in 0..MaxDeliveries
    /\ \A h \in Handlers : pc[h] \in {"idle", "recv", "find", "write", "done"}
    /\ \A h \in Handlers : req[h] \in Requests \cup {IdleRequest}
    /\ \A p \in PaymentIds : Len(payments[p].paidAt) \in {0, 1}

(* ------------------------------ claims --------------------------------- *)

Done(h) == pc[h] = "done"

\* the delivery of h carries a signature that verifies
Verified(h) == req[h].sig = "good"

\* the delivery of h is a verified charge.succeeded event
VerifiedCharge(h) == Verified(h) /\ req[h].type = "charge.succeeded"

\* the metadata of the charge of h has a non-empty orderId
WithOrderId(h) == req[h].charge.orderId \notin {"null", ""}

\* the Payment row named by the metadata of h is paid and holds the fields
\* derived from the charge of h, and h answered 200
PaidFromCharge(h) ==
    LET row == payments[req[h].charge.paymentId]
        c   == req[h].charge
    IN  /\ row.isPaid
        /\ row.paidAt # << >>
        /\ row.paymentResult.id = c.id
        /\ row.paymentResult.status = "COMPLETED"
        /\ row.paymentResult.email_address = c.email
        /\ row.paymentResult.amount = AmountToFixed(c.amount)
        /\ row.paymentResult.pricePaid = AmountToFixed(c.amount)
        /\ row.paymentResult.created_at \in 1..now
        /\ resp[h].status = 200

\* C1 as stated: a verified charge.succeeded delivery whose metadata names
\* an existing Payment that was PENDING when the handler ran leaves that
\* Payment PAID, with paidAt set and paymentResult derived from the charge,
\* and is answered 200.
C1_AsStated ==
    \A h \in Handlers :
        ( /\ Done(h)
          /\ VerifiedCharge(h)
          /\ req[h].charge.paymentId \in PaymentIds
          /\ req[h].charge.paymentId \notin startPaid[h] )
        => PaidFromCharge(h)

\* C1 amended: a verified charge.succeeded delivery whose metadata has a
\* non-empty orderId and names an existing Payment that is still PENDING
\* when the update is applied leaves that Payment PAID, with paidAt set and
\* paymentResult derived from the charge, and is answered 200.
C1_PendingBecomesPaid ==
    \A h \in Handlers :
        ( /\ Done(h)
          /\ VerifiedCharge(h)
          /\ WithOrderId(h)
          /\ req[h].charge.paymentId \in PaymentIds
          /\ applied[h] )
        => PaidFromCharge(h)

C1_Witness ==
    \E h \in Handlers :
        /\ Done(h) /\ VerifiedCharge(h) /\ WithOrderId(h)
        /\ req[h].charge.paymentId \in PaymentIds
        /\ applied[h]
        /\ payments[req[h].charge.paymentId].paymentResult.amount = "123"

\* C2: a verified charge.succeeded delivery that finds its Payment already
\* PAID (a redelivery) is answered 200 and leaves the row as it found it:
\* paidAt and paymentResult keep the values of the first application.
C2_RedeliveryIsNoOp ==
    \A h \in Handlers :
        ( /\ Done(h)
          /\ VerifiedCharge(h)
          /\ seen[h] # << >> )
        => ( seen[h][1].isPaid =>
               /\ resp[h].status = 200
               /\ resp[h].message = "updateOrderToPaid was successful"
               /\ ~applied[h]
               /\ payments[args[h].id].paidAt = seen[h][1].paidAt
               /\ payments[args[h].id].paymentResult = seen[h][1].paymentResult )

\* a redelivery that carried a later capture time has completed
C2_Witness ==
    \E h \in Handlers :
        /\ Done(h) /\ VerifiedCharge(h)
        /\ seen[h] # << >>
        /\ seen[h][1].isPaid
        /\ args[h].result.created_at > payments[args[h].id].paymentResult.created_at

\* two handlers have both read the same Payment as PENDING and both
\* completed the update call for identical events
RacedOn(h1, h2) ==
    /\ h1 # h2
    /\ Done(h1) /\ Done(h2)
    /\ req[h1] = req[h2]
    /\ VerifiedCharge(h1)
    /\ seen[h1] # << >> /\ seen[h2] # << >>
    /\ resp[h1].status = 200 /\ resp[h2].status = 200

\* C3: the paid update is applied to a Payment at most once, and of two
\* concurrent handlers that both read the Payment as PENDING exactly one
\* applies it.
C3_AtMostOnePaidWrite ==
    /\ \A p \in PaymentIds : paidWrites[p] <= 1
    /\ \A h1, h2 \in Handlers :
         ( RacedOn(h1, h2) /\ ~seen[h1][1].isPaid /\ ~seen[h2][1].isPaid )
         => ( applied[h1] # applied[h2] )

C3_Witness ==
    \E h1, h2 \in Handlers :
        /\ RacedOn(h1, h2)
        /\ ~seen[h1][1].isPaid /\ ~seen[h2][1].isPaid
        /\ paidWrites[req[h1].charge.paymentId] = 1

\* C4 as stated: a delivery whose signature header is present but does not
\* verify is answered 400 and never reaches the Payment update.
C4_AsStated ==
    \A h \in Handlers :
        ( Done(h) /\ req[h].sig = "bad" )
        => /\ resp[h].status = 400
           /\ "updatePaymentToPaid" \notin calls[h]
           /\ ~applied[h]

\* C5: a delivery without signature header is answered 400 with an error
\* body; neither signature verification nor the Payment update is reached.
C5_NoSignatureIs400 ==
    \A h \in Handlers :
        ( Done(h) /\ req[h].sig = "null" )
        => /\ resp[h].status = 400
           /\ resp[h].error = "No signature header"
           /\ calls[h] = {}
           /\ ~applied[h]

C5_Witness ==
    \E h \in Handlers :
        /\ Done(h) /\ req[h].sig = "null"
        /\ resp[h].status = 400

\* C6: a verified charge.succeeded event without orderId in its metadata is
\* answered 400 with an error body and never reaches the Payment update.
C6_NoOrderIdIs400 ==
    \A h \in Handlers :
        ( Done(h) /\ VerifiedCharge(h) /\ ~WithOrderId(h) )
        => /\ resp[h].status = 400
           /\ resp[h].error = "No orderId found in payment metadata"
           /\ "updatePaymentToPaid" \notin calls[h]
           /\ ~applied[h]

\* the event names an existing PENDING Payment and still is rejected
C6_Witness ==
    \E h \in Handlers :
        /\ Done(h) /\ VerifiedCharge(h)
        /\ req[h].charge.orderId = "null"
        /\ req[h].charge.paymentId \in PaymentIds
        /\ ~payments[req[h].charge.paymentId].isPaid
        /\ resp[h].status = 400

\* C7: a verified event of a type other than charge.succeeded is answered
\* 200 with message 'event is not charge.succeeded' and never reaches the
\* Payment update.
C7_OtherTypeAcknowledged ==
    \A h \in Handlers :
        ( Done(h) /\ Verified(h) /\ req[h].type # "charge.succeeded" )
        => /\ resp[h].status = 200
           /\ resp[h].message = "event is not charge.succeeded"
           /\ "updatePaymentToPaid" \notin calls[h]
           /\ ~applied[h]

C7_Witness ==
    \E h \in Handlers :
        /\ Done(h) /\ Verified(h)
        /\ req[h].type = "payment_intent.created"
        /\ WithOrderId(h)
        /\ resp[h].status = 200

\* C8: a verified charge.succeeded event whose paymentId names no Payment
\* is answered with an error, not a 200, and no Payment row is created or
\* changed by it.
C8_UnknownPaymentIsError ==
    \A h \in Handlers :
        ( Done(h) /\ VerifiedCharge(h) /\ req[h].charge.paymentId = "p9" )
        => /\ resp[h].status \in {400, 500}
           /\ resp[h].error # "null"
           /\ ~applied[h]
           /\ DOMAIN payments = PaymentIds

C8_Witness ==
    \E h \in Handlers :
        /\ Done(h) /\ VerifiedCharge(h) /\ WithOrderId(h)
        /\ req[h].charge.paymentId = "p9"
        /\ resp[h].status = 500
        /\ resp[h].message = "Payment not found"

\* C9 as stated: the amount stored in paymentResult is the exact major-unit
\* rendering of the minor-unit amount of the charge (12345 -> "123.45").
C9_AsStated ==
    \A h \in Handlers :
        ( Done(h) /\ applied[h] )
        => payments[args[h].id].paymentResult.amount
             = MajorUnits(req[h].charge.amount)

\* C10: paidAt is set exactly when isPaid is true, and a paid Payment stays
\* paid with the same paidAt in every later step.
C10_PaidIsTerminal ==
    /\ [](\A p \in PaymentIds :
             (payments[p].paidAt # << >>) <=> payments[p].isPaid)
    /\ [][\A p \in PaymentIds :
             payments[p].isPaid =>
                 /\ payments'[p].isPaid
                 /\ payments'[p].paidAt = payments[p].paidAt]_vars

\* a Payment paid at an earlier time has since received another delivery
C10_Witness ==
    \E p \in PaymentIds, h \in Handlers :
        /\ payments[p].isPaid
        /\ payments[p].paidAt # << >>
        /\ payments[p].paidAt[1] < now
        /\ Done(h) /\ args[h].id = p /\ ~applied[h]

\* a step of the invocation handled by h
HandlerStep(h) ==
    \/ DispatchNoSignature(h) \/ DispatchBadSignature(h)
    \/ DispatchOtherType(h) \/ DispatchNoOrderId(h) \/ DispatchUpdate(h)
    \/ PersistenceFailure(h)
    \/ FindUnknown(h) \/ FindPaid(h) \/ FindPending(h)
    \/ Write(h)

\* C11: no exception escapes POST: an invocation in flight can always go
\* on, an invocation that has ended has answered 200, 400 or 500, and an
\* exception raised while the Payment is resolved or updated is answered
\* 500 with an error and a message, never 200.
C11_ExceptionsBecome500 ==
    \A h \in Handlers :
        /\ pc[h] \in {"recv", "find", "write"} => ENABLED HandlerStep(h)
        /\ Done(h) => resp[h].status \in {200, 400, 500}
        /\ ( Done(h) /\ thrown[h] = "updatePaymentToPaid" )
           => /\ resp[h].status = 500
              /\ resp[h].error # "null"
              /\ resp[h].message # "null"
              /\ ~applied[h]

\* the store failed after the row had been read as PENDING
C11_Witness ==
    \E h \in Handlers :
        /\ Done(h)
        /\ thrown[h] = "updatePaymentToPaid"
        /\ seen[h] # << >>
        /\ ~payments[args[h].id].isPaid
        /\ resp[h].status = 500

\* C12 as stated: the Payment update is invoked only for a charge.succeeded
\* event whose metadata carries a paymentId, it targets the Payment named
\* by that paymentId, and it changes no other Payment.
C12_AsStated ==
    \A h \in Handlers :
        /\ "updatePaymentToPaid" \in calls[h]
           => /\ req[h].type = "charge.succeeded"
              /\ req[h].charge.paymentId \notin {"null", ""}
              /\ args[h].id = req[h].charge.paymentId
        /\ applied[h] => args[h].id = req[h].charge.paymentId
====
